---------------------------- MODULE Spec2Model ----------------------------
(***************************************************************************)
(* RoboChef.solve_task / RoboChef.take_action (src/robochef/agent.py).     *)
(*                                                                         *)
(* One run of solve_task on one task.  The oracle (chain.invoke), the      *)
(* tool (find_action / use) and an external party cancelling the task in   *)
(* the task store are the environment; their outcomes are chosen           *)
(* nondeterministically.  Calls on the task itself (save, post_message,    *)
(* record_action, refresh) return normally.  The statuses are the five of  *)
(* the task's life cycle: RUNNING, CANCELING, CANCELED, FINISHED, FAILED.  *)
(*                                                                         *)
(* Each message of the conversation and each action record carries the     *)
(* step and the attempt that appended it; the code keeps neither, they     *)
(* only name the messages in the properties below.                         *)
(*                                                                         *)
(* take_action is decorated with tenacity's retry(stop_after_attempt(5))   *)
(* without reraise=True: when the 5th attempt raises, tenacity raises      *)
(* RetryError(last_attempt), not the attempt's own exception.              *)
(***************************************************************************)
EXTENDS Naturals, Sequences, FiniteSets

\* ------------------------------------------------------------------ bounds

\* largest max_steps argument a run is started with
MaxSteps == 2

\* largest number of failing attempts the environment produces in one run
MaxFaults == 5

\* largest number of different exception classes the attempts of one run
\* raise
MaxFaultKinds == 1

\* ------------------------------------------------------- program constants

\* stop_after_attempt(5)
MaxAttempts == 5

\* the reserved name of the terminal action
ResultName == "result"

\* names find_action resolves (the tool's registered actions)
Registered == {"search"}

\* names the oracle may propose
Names == {"search", "bogus", ResultName}

\* values an action may return
Results == {"titles"}

\* task.description
Description == "find a pasta recipe"

None == "None"

\* ------------------------------------------------------------------ state

VARIABLES
    pc,             \* position of the run
    remote,         \* task.remote
    max_steps,      \* argument of solve_task
    status,         \* task.status (the task object of the run)
    storeStatus,    \* the status the task store holds
    error,          \* task.error
    saved,          \* statuses written by task.save(), in order
    feed,           \* task.post_message calls, in order
    records,        \* task.record_action calls, in order
    messages,       \* the list `messages` shared by all attempts
    current_state,  \* solve_task's current_state
    i,              \* iterations of the for loop started
    attempt,        \* tenacity's attempt_number for the current step
    done,           \* the flag take_action returned
    exc,            \* the exception in flight
    action,         \* the selection whose action is being used
    oracleCalls,    \* chain.invoke calls made
    lookups,        \* find_action calls made
    invoked,        \* robocheftool.use calls made
    returned,       \* robocheftool.use calls that returned a result
    faults,         \* failing attempts so far
    faultKinds,     \* exception classes raised in the run so far
    stepBase,       \* Len(messages) when the current step began
    stepState,      \* current_state when the current step began
    stepOracle,     \* oracleCalls when the current step began
    stepInvoked,    \* invoked when the current step began
    stepFeed,       \* Len(feed) when the current step began
    cancelSeenAt,   \* attempt at which the cancel check returned, or 0
    observed,       \* task.status as the latest cancel check read it
    requested       \* the call in flight and the oracle calls made when
                    \* cancellation was requested

vars == <<pc, remote, max_steps, status, storeStatus, error, saved, feed,
          records, messages, current_state, i, attempt, done, exc, action,
          oracleCalls, lookups, invoked, returned, faults, faultKinds, stepBase,
          stepState, stepOracle, stepInvoked, stepFeed, cancelSeenAt,
          observed, requested>>

\* ------------------------------------------------------------- exceptions

Exc(cls, msg) == [cls |-> cls, msg |-> msg, last |-> <<>>]

NoExc == Exc(None, <<>>)

\* whatever chain.invoke raises
OracleError == Exc("OracleError", <<"oracle call failed">>)

\* json.loads on text that is not JSON
JSONDecodeError == Exc("JSONDecodeError", <<"Expecting value">>)

\* raise ValueError("No action selection parsed")
NoSelection == Exc("ValueError", <<"No action selection parsed">>)

\* selection['observation'] on an object without the key
MissingKey == Exc("KeyError", <<"'observation'">>)

\* raise SystemError("action not found")
ActionNotFound == Exc("SystemError", <<"action not found">>)

\* whatever robocheftool.use raises
ToolError == Exc("ToolError", <<"tool failed">>)

\* raise ValueError(f"Trouble using action: {e}")
TroubleUsing(e) == Exc("ValueError", <<"Trouble using action: ">> \o e.msg)

\* tenacity: RetryError(last_attempt), which holds the attempt's exception
RetryError(e) == [cls |-> "RetryError", msg |-> <<>>, last |-> <<e>>]

\* str(e): RetryError prints the future of the last attempt, which names the
\* class of its exception and not its text
Str(e) ==
    IF e.cls = "RetryError"
    THEN <<"RetryError[<Future state=finished raised ", e.last[1].cls, ">]">>
    ELSE e.msg

\* -------------------------------------------------------- oracle responses

Response(kind, name) == [kind |-> kind, name |-> name]

\* the malformed responses the oracle gives: text that is not JSON ("empty",
\* a falsy JSON value, and "partial", an object lacking a key the code reads,
\* raise at the same place with another exception class)
MalformedKinds == {"notjson"}

\* response.content: malformed, or an object naming an action
Responses ==
    {Response(k, "") : k \in MalformedKinds}
        \cup {Response("proposal", n) : n \in Names}

\* json.loads and the reads of the selection: the exception raised, if any
ParseError(c) ==
    CASE c.kind = "notjson" -> JSONDecodeError
      [] c.kind = "empty"   -> NoSelection
      [] c.kind = "partial" -> MissingKey
      [] OTHER              -> NoExc

\* robocheftool.find_action
find_action(name) == IF name \in Registered THEN name ELSE None

\* ------------------------------------------------------------ the messages

HumanMessage(state, s, a) ==
    [role |-> "human", content |-> <<"Your current task is ", state, ".">>,
     step |-> s, attempt |-> a]

AIMessage(c, s, a) ==
    [role |-> "ai", content |-> c, step |-> s, attempt |-> a]

Post(kind, text) == [kind |-> kind, text |-> text]

\* ------------------------------------------------------------------- Init

\* task.error as long as the run has not set it (an error is a text, kept
\* as the sequence of its parts)
NoError == <<>>

\* no cancellation was requested during the run
NoRequest == [call |-> None, calls |-> 0, status |-> None]

\* the calls of take_action that block: chain.invoke and robocheftool.use
InFlight == {"oracle", "action"}

Init ==
    /\ pc = "init"
    /\ remote \in BOOLEAN
    /\ max_steps \in 0..MaxSteps
    /\ status \in {"RUNNING", "CANCELING", "CANCELED"}
    /\ storeStatus = status
    /\ error = NoError
    /\ saved = <<>>
    /\ feed = <<>>
    /\ records = <<>>
    /\ messages = <<>>
    /\ current_state = None
    /\ i = 0
    /\ attempt = 0
    /\ done = FALSE
    /\ exc = NoExc
    /\ action = None
    /\ oracleCalls = 0
    /\ lookups = 0
    /\ invoked = 0
    /\ returned = 0
    /\ faults = 0
    /\ faultKinds = {}
    /\ stepBase = 0
    /\ stepState = None
    /\ stepOracle = 0
    /\ stepInvoked = 0
    /\ stepFeed = 0
    /\ cancelSeenAt = 0
    /\ observed = None
    /\ requested = NoRequest


\* ---------------------------------------------------------------- helpers

params == <<remote, max_steps>>
checks == <<cancelSeenAt, observed>>
env == <<faults, faultKinds>>
taskVars == <<status, storeStatus, error, saved>>
stepVars == <<stepBase, stepState, stepOracle, stepInvoked, stepFeed>>
counters == <<oracleCalls, lookups, invoked, returned>>

\* the refresh forgotten: the attempt reads the task object as it is
Refreshed_Local == status

\* task.refresh() when task.remote: the status the attempt then reads
Refreshed == IF remote THEN storeStatus ELSE status

\* the check with the CANCELING case forgotten
IsCancel_OnlyCanceled(s) == s = "CANCELED"

\* task.status == CANCELING or task.status == CANCELED
IsCancel(s) == s \in {"CANCELING", "CANCELED"}

\* the check made by the first attempt of a step only
ChecksCancel_FirstOnly(a) == a = 1

\* the check is in the body tenacity retries: attempt a makes it, whatever a
ChecksCancel(a) == TRUE

\* the transition made for a task already CANCELED as well
IsCanceling_Any(s) == TRUE

\* task.status == TaskStatus.CANCELING: the check still has to cancel
IsCanceling(s) == s = "CANCELING"

\* the terminal check missing: every name goes on to the registry
IsTerminal_Never(name) == FALSE

\* selection['action']['name'] == "result"
IsTerminal(name) == name = ResultName

\* one budget for the whole run: a step goes on counting where the last ended
FirstAttempt_Carried(a) == a

\* each call of the decorated take_action starts its own attempt count
FirstAttempt(a) == 0

\* a retry budget one short
StopAfterAttempt_Four(n) == n + 1 >= MaxAttempts

\* stop_after_attempt(5)
StopAfterAttempt(n) == n >= MaxAttempts

\* the loop returning after any step
Returns_Always(d) == TRUE

\* the loop ignoring the flag
Returns_Never(d) == FALSE

\* if done: return task
Returns(d) == d

\* the three posts made once the selection is parsed
SelectionPosts(name) ==
    <<Post("observation", <<>>), Post("reason", <<>>), Post("taking", <<name>>)>>

\* if action_response: post it
ResultPosts(r) == IF r # "" THEN <<Post("result", <<r>>)>> ELSE <<>>

\* the arguments of task.record_action that vary: the action and its result
\* (state is an empty EnvState(); tool, agent_id and model are fixed)
ActionRecord(a, r, s) == [action |-> a, result |-> r, step |-> s]

\* the record written twice
Record_Twice(recs, a, r, s) == recs \o <<ActionRecord(a, r, s), ActionRecord(a, r, s)>>

\* task.record_action(...)
Record(recs, a, r, s) == Append(recs, ActionRecord(a, r, s))

\* the step's result dropped: the next step is given the old state again
NewState_Stale(state, r) == state

\* new_state = action_response, returned to solve_task as current_state
NewState(state, r) == r

\* the thread rebuilt from the new message alone
Appended_Reset(msgs, m) == <<m>>

\* messages.append(...)
Appended(msgs, m) == Append(msgs, m)

\* the terminal step returning the selection as the new state
TerminalState_Value(state, c) == c.name

\* return current_state, True
TerminalState(state, c) == state

\* `while True` in place of the bounded loop
InRange_Always(k, n) == TRUE

\* a loop running one step too many
InRange_Inclusive(k, n) == k <= n

\* for i in range(max_steps)
InRange(k, n) == k < n

\* the failed attempt re-raised without a word to the user
Warning_None(e) == <<>>

\* the post of line 244: "Error taking action: {e} -- retrying..."
Warning(e) == <<Post("warning", Str(e))>>

\* except Exception as e: post the warning, raise e
Raise(e, posts) ==
    /\ faults < MaxFaults
    /\ e.cls \in faultKinds \/ Cardinality(faultKinds) < MaxFaultKinds
    /\ faults' = faults + 1
    /\ faultKinds' = faultKinds \cup {e.cls}
    /\ feed' = feed \o posts \o Warning(e)
    /\ exc' = e
    /\ pc' = "raised"

\* task.status = s; task.save()
SetAndSave(s) ==
    /\ status' = s
    /\ storeStatus' = s
    /\ saved' = Append(saved, s)

\* ---------------------------------------------------------- solve_task

\* lines 58-94: the starting message, the empty thread, the initial state
SolveTaskStart ==
    /\ pc = "init"
    /\ feed' = Append(feed, Post("start", <<Description>>))
    /\ messages' = <<>>
    /\ current_state' = Description
    /\ pc' = "loop"
    /\ UNCHANGED <<params, requested, taskVars, stepVars, counters, records,
                   i, attempt, done, exc, action, env, checks>>

\* for i in range(max_steps): the next iteration calls take_action
LoopNext ==
    /\ pc = "loop"
    /\ InRange(i, max_steps)
    /\ i' = i + 1
    /\ attempt' = FirstAttempt(attempt)
    /\ stepBase' = Len(messages)
    /\ stepState' = current_state
    /\ stepOracle' = oracleCalls
    /\ stepInvoked' = invoked
    /\ stepFeed' = Len(feed)
    /\ pc' = "call"
    /\ UNCHANGED <<params, requested, taskVars, counters, feed, records,
                   messages, current_state, done, exc, action, env, checks>>

\* lines 116-121: the loop ran out
MaxStepsReached ==
    /\ pc = "loop"
    /\ ~InRange(i, max_steps)
    /\ SetAndSave("FAILED")
    /\ feed' = Append(feed, Post("maxsteps", <<>>))
    /\ pc' = "returned"
    /\ UNCHANGED <<params, requested, error, stepVars, counters, records,
                   messages, current_state, i, attempt, done, exc, action,
                   env, checks>>

\* lines 102-108: an exception left take_action
HandleException ==
    /\ pc = "caught"
    /\ SetAndSave("FAILED")
    /\ error' = Str(exc)
    /\ feed' = Append(feed, Post("error", Str(exc)))
    /\ pc' = "returned"
    /\ UNCHANGED <<params, requested, stepVars, counters, records, messages,
                   current_state, i, attempt, done, exc, action, env, checks>>

\* lines 110-112: take_action returned done
StepDone ==
    /\ pc = "after"
    /\ Returns(done)
    /\ pc' = "returned"
    /\ UNCHANGED <<params, requested, taskVars, stepVars, counters, feed,
                   records, messages, current_state, i, attempt, done, exc,
                   action, env, checks>>

\* lines 110-114: take_action returned not done; sleep, next iteration
StepContinue ==
    /\ pc = "after"
    /\ ~Returns(done)
    /\ pc' = "loop"
    /\ UNCHANGED <<params, requested, taskVars, stepVars, counters, feed,
                   records, messages, current_state, i, attempt, done, exc,
                   action, env, checks>>

\* ------------------------------------------------------------- tenacity

\* an attempt raised and fewer than 5 attempts were made: call again
RetryAgain ==
    /\ pc = "raised"
    /\ ~StopAfterAttempt(attempt)
    /\ exc' = NoExc
    /\ pc' = "call"
    /\ UNCHANGED <<params, requested, taskVars, stepVars, counters, feed,
                   records, messages, current_state, i, attempt, done, action,
                   env, checks>>

\* the 5th attempt raised: RetryError leaves take_action
RetryExhausted ==
    /\ pc = "raised"
    /\ StopAfterAttempt(attempt)
    /\ exc' = RetryError(exc)
    /\ pc' = "caught"
    /\ UNCHANGED <<params, requested, taskVars, stepVars, counters, feed,
                   records, messages, current_state, i, attempt, done, action,
                   env, checks>>

\* ----------------------------------------------------------- take_action

\* lines 147-160: the task is being cancelled or is cancelled
CancelObserved ==
    /\ pc = "call"
    /\ ChecksCancel(attempt + 1) /\ IsCancel(Refreshed)
    /\ attempt' = attempt + 1
    /\ IF IsCanceling(Refreshed)
       THEN SetAndSave("CANCELED")
       ELSE /\ status' = Refreshed
            /\ UNCHANGED <<storeStatus, saved>>
    /\ done' = TRUE
    /\ cancelSeenAt' = attempt'
    /\ observed' = Refreshed
    /\ pc' = "after"
    /\ UNCHANGED <<params, requested, error, stepVars, counters, feed,
                   records, messages, current_state, i, exc, action, env>>

\* lines 147-172: not cancelled; the prompt is appended and the oracle called
AskOracle ==
    /\ pc = "call"
    /\ ~(ChecksCancel(attempt + 1) /\ IsCancel(Refreshed))
    /\ attempt' = attempt + 1
    /\ status' = Refreshed
    /\ observed' = Refreshed
    /\ messages' = Appended(messages, HumanMessage(current_state, i, attempt'))
    /\ oracleCalls' = oracleCalls + 1
    /\ pc' = "oracle"
    /\ UNCHANGED <<params, requested, storeStatus, error, saved, stepVars,
                   lookups, invoked, returned, feed, records, current_state,
                   i, done, exc, action, env, cancelSeenAt>>

\* line 168 raises
OracleRaises ==
    /\ pc = "oracle"
    /\ Raise(OracleError, <<>>)
    /\ UNCHANGED <<params, requested, taskVars, stepVars, counters, records,
                   messages, current_state, i, attempt, done, action, checks>>

\* lines 175-195: the response is appended and does not parse
OracleMalformed(c) ==
    /\ pc = "oracle"
    /\ ParseError(c) # NoExc
    /\ messages' = Appended(messages, AIMessage(c, i, attempt))
    /\ Raise(ParseError(c), <<>>)
    /\ UNCHANGED <<params, requested, taskVars, stepVars, counters, records,
                   current_state, i, attempt, done, action, checks>>

\* lines 175-207: the oracle selects "result"
OracleResult(c) ==
    /\ pc = "oracle"
    /\ ParseError(c) = NoExc
    /\ IsTerminal(c.name)
    /\ messages' = Appended(messages, AIMessage(c, i, attempt))
    /\ feed' = feed \o SelectionPosts(c.name) \o <<Post("done", <<>>)>>
    /\ SetAndSave("FINISHED")
    /\ done' = TRUE
    /\ pc' = "after"
    /\ current_state' = TerminalState(current_state, c)
    /\ UNCHANGED <<params, requested, error, stepVars, counters, records, i,
                   attempt, exc, action, env, checks>>

\* lines 175-214: the oracle selects a name find_action does not resolve
OracleUnknown(c) ==
    /\ pc = "oracle"
    /\ ParseError(c) = NoExc
    /\ ~IsTerminal(c.name)
    /\ find_action(c.name) = None
    /\ messages' = Appended(messages, AIMessage(c, i, attempt))
    /\ lookups' = lookups + 1
    /\ Raise(ActionNotFound, SelectionPosts(c.name))
    /\ UNCHANGED <<params, requested, taskVars, stepVars, oracleCalls,
                   invoked, returned, records, current_state, i, attempt,
                   done, action, checks>>

\* lines 175-218: the oracle selects a registered action, which is called
OracleSelects(c) ==
    /\ pc = "oracle"
    /\ ParseError(c) = NoExc
    /\ ~IsTerminal(c.name)
    /\ find_action(c.name) # None
    /\ messages' = Appended(messages, AIMessage(c, i, attempt))
    /\ lookups' = lookups + 1
    /\ feed' = feed \o SelectionPosts(c.name)
    /\ action' = find_action(c.name)
    /\ invoked' = invoked + 1
    /\ pc' = "action"
    /\ UNCHANGED <<params, requested, taskVars, stepVars, oracleCalls,
                   returned, records, current_state, i, attempt, done, exc,
                   env, checks>>

\* lines 217-220: the action raises
ActionRaises ==
    /\ pc = "action"
    /\ Raise(TroubleUsing(ToolError), <<>>)
    /\ action' = None
    /\ UNCHANGED <<params, requested, taskVars, stepVars, counters, records,
                   messages, current_state, i, attempt, done, checks>>

\* lines 218-239 and 101: the action returns r, which is recorded and becomes
\* the current state
ActionReturns(r) ==
    /\ pc = "action"
    /\ returned' = returned + 1
    /\ feed' = feed \o ResultPosts(r)
    /\ records' = Record(records, action, r, i)
    /\ current_state' = NewState(current_state, r)
    /\ done' = FALSE
    /\ action' = None
    /\ pc' = "after"
    /\ UNCHANGED <<params, requested, taskVars, stepVars, oracleCalls,
                   lookups, invoked, messages, i, attempt, exc, env, checks>>

\* ------------------------------------------------------------ environment

\* an attempt of the current step has failed and another is to follow
BetweenAttempts ==
    \/ pc = "raised" /\ ~StopAfterAttempt(attempt)
    \/ pc = "call" /\ attempt > 0

\* someone else cancels a remote task in the task store during the run:
\* the store then holds CANCELING (requested) or CANCELED (already carried out)
ExternalCancel(s) ==
    /\ remote
    /\ pc # "returned"
    /\ storeStatus = "RUNNING"
    /\ storeStatus' = s
    /\ requested' = [call |-> IF pc \in InFlight THEN pc
                               ELSE IF BetweenAttempts THEN "retry"
                               ELSE "idle",
                     calls |-> oracleCalls, status |-> s]
    /\ UNCHANGED <<params, pc, status, error, saved, stepVars, counters, feed,
                   records, messages, current_state, i, attempt, done, exc,
                   action, env, checks>>

Next ==
    \/ SolveTaskStart
    \/ LoopNext
    \/ MaxStepsReached
    \/ HandleException
    \/ StepDone
    \/ StepContinue
    \/ RetryAgain
    \/ RetryExhausted
    \/ CancelObserved
    \/ AskOracle
    \/ OracleRaises
    \/ \E c \in Responses : OracleMalformed(c)
    \/ \E c \in Responses : OracleResult(c)
    \/ \E c \in Responses : OracleUnknown(c)
    \/ \E c \in Responses : OracleSelects(c)
    \/ ActionRaises
    \/ \E r \in Results : ActionReturns(r)
    \/ \E s \in {"CANCELING", "CANCELED"} : ExternalCancel(s)

Spec == Init /\ [][Next]_vars

\* every call made by the run returns (the oracle, the action and the task's
\* own calls give a value or raise) and time.sleep(2) ends, so the run takes
\* its next step whenever it has one
FairSpec == Init /\ [][Next]_vars /\ WF_vars(Next)


\* ------------------------------------------------------------------ claims

Last(q) == q[Len(q)]

\* the messages appended since the current step began
StepMessages == SubSeq(messages, stepBase + 1, Len(messages))

\* m is the oracle's response selecting the terminal action
IsResultMessage(m) ==
    m.role = "ai" /\ m.content = Response("proposal", ResultName)

\* m is the oracle's response selecting a name that is not registered
IsUnknownMessage(m) ==
    /\ m.role = "ai"
    /\ m.content.kind = "proposal"
    /\ m.content.name # ResultName
    /\ m.content.name \notin Registered

\* C1: when solve_task returns, task.status is one of FINISHED, FAILED and
\* CANCELED; it is never RUNNING or CANCELING.
C1_TerminalStatusAtReturn ==
    pc = "returned" => status \in {"FINISHED", "FAILED", "CANCELED"}

\* a run cancelled in its second step has returned
C1_Witness ==
    /\ pc = "returned"
    /\ status = "CANCELED"
    /\ i = 2
    /\ oracleCalls > 0

\* C2: once the oracle has proposed "result" in step n, the run is FINISHED
\* in step n: the proposal is the last message of the conversation (no oracle
\* call follows it), no further step is started and the loop returns.
C2_ResultEndsRunAtStepN ==
    \A k \in DOMAIN messages :
        IsResultMessage(messages[k]) =>
            /\ k = Len(messages)
            /\ i = messages[k].step
            /\ attempt = messages[k].attempt
            /\ i <= max_steps
            /\ status = "FINISHED"
            /\ done
            /\ pc \in {"after", "returned"}

\* one valid non-terminal step, then "result" in step 2, no failed attempt
C2_Witness ==
    /\ pc = "returned"
    /\ status = "FINISHED"
    /\ IsResultMessage(Last(messages))
    /\ i = 2
    /\ faults = 0
    /\ oracleCalls = 2

\* C3: a status read as CANCELING by the check at the top of take_action ends
\* the run CANCELED with exactly one save (of CANCELED); that attempt calls
\* neither the oracle nor an action, and when it is the first attempt of the
\* step, the step makes no oracle call, no lookup and no action call at all.
C3_CancelingEndsCanceled ==
    observed = "CANCELING" =>
        /\ cancelSeenAt = attempt
        /\ pc \in {"after", "returned"}
        /\ done
        /\ status = "CANCELED"
        /\ saved = <<"CANCELED">>
        /\ current_state = stepState
        /\ oracleCalls + 1 = stepOracle + attempt
        /\ attempt = 1 =>
            /\ oracleCalls = stepOracle
            /\ invoked = stepInvoked
            /\ Len(messages) = stepBase

\* a remote task whose cancellation is seen at the start of step 2
C3_Witness ==
    /\ remote
    /\ observed = "CANCELING"
    /\ pc = "returned"
    /\ i = 2
    /\ attempt = 1

\* C4: the run has made max_steps successful non-terminal steps exactly when
\* it leaves through the end of the loop; it then is FAILED, its last post is
\* the max-steps message, and there are exactly max_steps action records.
C4_MaxStepsReached ==
    pc = "returned" =>
        /\ (~done /\ exc = NoExc) <=> (Len(records) = max_steps)
        /\ Len(records) = max_steps =>
            /\ status = "FAILED"
            /\ Last(feed) = Post("maxsteps", <<>>)
            /\ Last(saved) = "FAILED"
            /\ error = NoError
            /\ i = max_steps

\* two steps allowed, two non-terminal steps made, one of them after a retry
C4_Witness ==
    /\ pc = "returned"
    /\ max_steps = 2
    /\ Len(records) = 2
    /\ faults > 0
    /\ Last(feed).kind = "maxsteps"

\* every attempt of the current step got a proposal naming an unregistered
\* action
AllAttemptsUnknown ==
    /\ Len(StepMessages) = 2 * attempt
    /\ \A k \in DOMAIN StepMessages :
        IF k % 2 = 1
        THEN StepMessages[k].role = "human"
        ELSE IsUnknownMessage(StepMessages[k])

\* C5: a step in which every attempt names an unregistered action fails the
\* run after exactly 5 attempts: 5 oracle calls, no action call, status
\* FAILED, and task.error and the failure post are the text of the RetryError
\* that holds the action-not-found error.
C5_UnknownActionFailsAfterFive ==
    (pc = "returned" /\ exc # NoExc /\ AllAttemptsUnknown) =>
        /\ attempt = MaxAttempts
        /\ oracleCalls = stepOracle + MaxAttempts
        /\ invoked = stepInvoked
        /\ status = "FAILED"
        /\ exc = RetryError(ActionNotFound)
        /\ error = Str(RetryError(ActionNotFound))
        /\ Last(feed) = Post("error", error)

\* the second step names an unregistered action five times
C5_Witness ==
    /\ pc = "returned"
    /\ exc # NoExc
    /\ AllAttemptsUnknown
    /\ i = 2


\* the text of the warning posted by the last failed attempt
LastWarningText == feed[Len(feed) - 1].text

\* C6 (as claimed): when the 5th attempt of a step fails, the exception of
\* that attempt reaches solve_task, and its text becomes task.error and the
\* text of the one final failure post.
C6_LastErrorTextAttached ==
    (pc = "returned" /\ exc # NoExc) =>
        /\ status = "FAILED"
        /\ feed[Len(feed) - 1].kind = "warning"
        /\ error = LastWarningText
        /\ Last(feed) = Post("error", LastWarningText)

\* C7 (as claimed): a failed attempt leaves the conversation as it was when
\* the step began, so the oracle is given, on every attempt of a step, the
\* conversation of the step's first attempt: the history at the start of the
\* step and one prompt.
C7_RetryGivenSameConversation ==
    pc = "oracle" =>
        /\ Len(messages) = stepBase + 1
        /\ Last(messages).role = "human"
        /\ Last(messages).content = <<"Your current task is ", stepState, ".">>

IsPrefix(p, q) ==
    /\ Len(p) <= Len(q)
    /\ \A k \in DOMAIN p : p[k] = q[k]

\* no message of a later step precedes a message of an earlier step
StepOrdered(m) ==
    \A k \in DOMAIN m : k < Len(m) => m[k].step <= m[k + 1].step

\* the state the oracle is prompted with in step s
StateBefore(recs, s) == IF s = 1 THEN Description ELSE recs[s - 1].result

\* the prompt of the successful attempt of step s is in m, followed at once by
\* the response that selected the recorded action
HoldsStep(m, recs, s) ==
    \E k \in DOMAIN m :
        /\ k < Len(m)
        /\ m[k].role = "human"
        /\ m[k].step = s
        /\ m[k].content = <<"Your current task is ", StateBefore(recs, s), ".">>
        /\ m[k + 1].role = "ai"
        /\ m[k + 1].step = s
        /\ m[k + 1].attempt = m[k].attempt
        /\ m[k + 1].content = Response("proposal", recs[s].action)

\* the prompt and the "result" response of the terminal step s end m
EndsWithResult(m, recs, s) ==
    /\ Len(m) >= 2
    /\ m[Len(m) - 1].role = "human"
    /\ m[Len(m) - 1].step = s
    /\ m[Len(m) - 1].content = <<"Your current task is ", StateBefore(recs, s), ".">>
    /\ IsResultMessage(m[Len(m)])
    /\ m[Len(m)].step = s
    /\ m[Len(m)].attempt = m[Len(m) - 1].attempt

\* C8: the conversation only grows at its end, its messages are in step
\* order, and for every completed step (each recorded step, and the terminal
\* step of a FINISHED run) it holds that step's prompt followed at once by
\* that step's response.
C8_ConversationAppendOnly ==
    [][/\ IsPrefix(messages, messages')
       /\ StepOrdered(messages')
       /\ \A s \in DOMAIN records' : HoldsStep(messages', records', s)
       /\ status' = "FINISHED" => EndsWithResult(messages', records', i')]_vars

\* two completed steps, one of which needed a retry
C8_Witness ==
    /\ Len(records) = 2
    /\ faults > 0
    /\ Len(messages) > 4
    /\ \A s \in DOMAIN records : HoldsStep(messages, records, s)

\* C9: the terminal step makes no action record and leaves the current state
\* as it was: a run FINISHED in step n has the n-1 records of the steps
\* before it, and the state of the start of step n.
C9_TerminalStepRecordsNothing ==
    status = "FINISHED" =>
        /\ Len(records) + 1 = i
        /\ \A n \in DOMAIN records : records[n].step < i
        /\ current_state = stepState
        /\ current_state = StateBefore(records, i)

\* "search" in step 1, "result" in step 2: one record
C9_Witness ==
    /\ pc = "returned"
    /\ status = "FINISHED"
    /\ i = 2
    /\ records = <<ActionRecord("search", "titles", 1)>>
    /\ current_state = "titles"

CancelingInFlight ==
    requested.call \in InFlight /\ requested.status = "CANCELING"

\* C11 as stated: for a remote task, a cancellation requested while an oracle
\* or action call is in flight takes effect after that call returns, and the
\* run then ends with status CANCELED.
C11_InFlightCancelEndsCanceled ==
    (pc = "returned" /\ CancelingInFlight) => status = "CANCELED"

\* C11 amended: a cancellation requested while an oracle or action call is in
\* flight does not abort that call and is not seen before the refresh at the
\* top of the next attempt; no oracle call is started after the request; if
\* another attempt begins it ends the run CANCELED, and otherwise the run ends
\* FINISHED (the call in flight proposed `result`) or FAILED (the attempt in
\* flight was the step's fifth failure, or its step was the last one allowed).
C11_InFlightCancelSeenAtNextAttempt ==
    CancelingInFlight =>
        /\ remote
        /\ oracleCalls = requested.calls
        /\ cancelSeenAt = 0 => status \in {"RUNNING", "FINISHED", "FAILED"}
        /\ cancelSeenAt > 0 =>
              /\ status = "CANCELED"
              /\ observed = "CANCELING"
              /\ saved = <<"CANCELED">>
              /\ done
        /\ pc = "returned" =>
              \/ cancelSeenAt > 0
              \/ status = "FINISHED" /\ IsResultMessage(Last(messages))
              \/ status = "FAILED" /\ exc.cls = "RetryError"
                                   /\ attempt = MaxAttempts
              \/ status = "FAILED" /\ exc = NoExc /\ i = max_steps
                                   /\ Len(records) = max_steps

\* the action in flight when cancellation was requested returned and was
\* recorded, and the next attempt ended the run CANCELED
C11_Witness ==
    /\ pc = "returned"
    /\ CancelingInFlight
    /\ requested.call = "action"
    /\ Len(records) = requested.calls
    /\ status = "CANCELED"


\* --------------------------------------------------------------------- C12

\* C12: when the status read at the top of take_action is already CANCELED,
\* the attempt returns done = TRUE at once and changes nothing else: the
\* status stays CANCELED, nothing is saved, the conversation and the current
\* state are as before, and no oracle call, lookup, action call, record or
\* post is made.
C12_CanceledReturnsWithoutMutation ==
    [][(pc = "call" /\ Refreshed = "CANCELED") =>
          /\ pc' = "after"
          /\ done'
          /\ status' = "CANCELED"
          /\ UNCHANGED <<storeStatus, saved, error, messages, current_state,
                         counters, records, feed, i>>]_vars

\* a task found CANCELED by a later attempt, after the conversation had grown
C12_Witness ==
    /\ observed = "CANCELED"
    /\ cancelSeenAt > 1
    /\ done
    /\ saved = <<>>
    /\ Len(messages) > 0


\* --------------------------------------------------------------------- C13

\* the positions of the prompts in the conversation
Prompts == {k \in DOMAIN messages : messages[k].role = "human"}

\* C13: every prompt of step 1 carries the task description and every prompt
\* of step s + 1 carries the result recorded for the action of step s, so all
\* attempts of a step are prompted with the same state; while a step is being
\* attempted current_state is the state the step began with.
C13_PromptCarriesPreviousResult ==
    /\ \A k \in Prompts :
          messages[k].content =
              <<"Your current task is ",
                StateBefore(records, messages[k].step), ".">>
    /\ pc \in {"call", "oracle", "action", "raised", "caught"} =>
          /\ current_state = stepState
          /\ current_state = StateBefore(records, i)

\* a retry in step 2 was prompted with the result of step 1
C13_Witness ==
    \E k \in Prompts :
        /\ messages[k].step = 2
        /\ messages[k].attempt = 2
        /\ messages[k].content = <<"Your current task is ", records[1].result, ".">>
        /\ records[1].result # Description


\* --------------------------------------------------------------------- C14

\* the attempts of the current step that went on to call the oracle
StepOracleCalls == oracleCalls - stepOracle

\* C14: the attempt number of a step counts the attempts of that step alone
\* (each attempt makes one oracle call, except one ended by the cancel check)
\* and never exceeds 5; a step gives up only after 5 attempts of its own; at
\* most one action call is made per attempt; so a run makes at most
\* 5 * max_steps oracle calls and at most 5 * max_steps action calls.
C14_RetryBudgetPerStep ==
    /\ attempt <= MaxAttempts
    /\ i <= max_steps
    /\ attempt = StepOracleCalls + (IF cancelSeenAt > 0 THEN 1 ELSE 0)
    /\ invoked - stepInvoked <= StepOracleCalls
    /\ exc.cls = "RetryError" => StepOracleCalls = MaxAttempts
    /\ oracleCalls <= MaxAttempts * i
    /\ oracleCalls <= MaxAttempts * max_steps
    /\ invoked <= MaxAttempts * max_steps

\* step 2 is at its fifth attempt although step 1 had already used a retry
C14_Witness ==
    /\ i = 2
    /\ attempt = MaxAttempts
    /\ stepOracle >= 2
    /\ StepOracleCalls = MaxAttempts
    /\ pc = "oracle"


\* --------------------------------------------------------------------- C15

\* the positions of the parsed responses that propose one of the names
Proposals(names) ==
    {k \in DOMAIN messages :
        /\ messages[k].role = "ai"
        /\ messages[k].content.kind = "proposal"
        /\ messages[k].content.name \in names}

\* C15: the registry is asked once for every proposed name other than
\* "result" and never for "result"; an action is invoked once for every
\* proposed name that is registered and not "result", and for no other; while
\* an action runs it is the one just proposed; an attempt failing with
\* "action not found" proposed an unregistered name, and every record is of
\* a registered action that was invoked.
C15_DispatchOnlyResolvedNonTerminal ==
    /\ lookups = Cardinality(Proposals(Names \ {ResultName}))
    /\ invoked = Cardinality(Proposals(Registered \ {ResultName}))
    /\ pc = "action" =>
          /\ action \in Registered \ {ResultName}
          /\ Last(messages).role = "ai"
          /\ Last(messages).content = Response("proposal", action)
    /\ (pc = "raised" /\ exc = ActionNotFound) => IsUnknownMessage(Last(messages))
    /\ Len(records) <= invoked
    /\ \A k \in DOMAIN records : records[k].action \in Registered \ {ResultName}

\* an unregistered name failed an attempt, a registered one was then invoked
\* and recorded, and "result" ended the run: one action call, two lookups
C15_Witness ==
    /\ pc = "returned"
    /\ status = "FINISHED"
    /\ Proposals({"bogus"}) # {}
    /\ Proposals({ResultName}) # {}
    /\ invoked = 1
    /\ lookups = 2
    /\ Len(records) = 1


\* --------------------------------------------------------------------- C16

\* the positions in feed, from position `from` on, of the posts of a kind
PostsOf(kind, from) ==
    {k \in DOMAIN feed : k > from /\ feed[k].kind = kind}

\* the attempts that ended by raising: every oracle call belongs to one
\* attempt, which raised unless its action returned, it proposed "result",
\* or it is still in flight
FailedAttempts ==
    oracleCalls - returned
        - (IF status = "FINISHED" THEN 1 ELSE 0)
        - (IF pc \in InFlight THEN 1 ELSE 0)

\* C16: the feed holds exactly one warning for every attempt that raised (so
\* an attempt ended by the cancel check or by "result" adds none); the one
\* final failure post exists only once an exception has left take_action, and
\* then the feed of that step holds exactly 5 warnings, the last of them
\* followed at once by the failure post, which ends the feed.
C16_OneWarningPerFailedAttempt ==
    /\ faults = FailedAttempts
    /\ Cardinality(PostsOf("warning", 0)) = FailedAttempts
    /\ Cardinality(PostsOf("error", 0)) =
          (IF pc = "returned" /\ exc # NoExc THEN 1 ELSE 0)
    /\ (pc = "returned" /\ exc # NoExc) =>
          /\ Cardinality(PostsOf("warning", stepFeed)) = MaxAttempts
          /\ Last(feed).kind = "error"
          /\ feed[Len(feed) - 1].kind = "warning"

\* step 2 ran out of retries after step 1 had ended without a warning
C16_Witness ==
    /\ pc = "returned"
    /\ exc.cls = "RetryError"
    /\ i = 2
    /\ Cardinality(PostsOf("warning", 0)) = MaxAttempts
    /\ Cardinality(PostsOf("error", 0)) = 1


\* --------------------------------------------------------------------- C17

\* C17: every attempt makes the cancel check. When the store's status turns
\* CANCELING or CANCELED between two attempts of a failing step, no oracle
\* call is made after that, the next attempt returns done with the status
\* CANCELED (saved once when it was CANCELING), and the run returns CANCELED
\* with no error attached, never FAILED, however many of the step's attempts
\* (up to 4) had failed before.
C17_CancelCheckedAtEveryAttempt ==
    /\ requested # NoRequest => oracleCalls = requested.calls
    /\ cancelSeenAt > 0 =>
          /\ attempt = cancelSeenAt
          /\ StepOracleCalls = attempt - 1
          /\ IsCancel(observed)
          /\ status = "CANCELED"
          /\ done
          /\ pc \in {"after", "returned"}
    /\ requested.call = "retry" =>
          /\ status # "FAILED"
          /\ error = NoError
          /\ pc \notin InFlight
          /\ pc = "returned" =>
                /\ status = "CANCELED"
                /\ cancelSeenAt > 1
                /\ saved = (IF requested.status = "CANCELING"
                            THEN <<"CANCELED">> ELSE <<>>)

\* cancellation requested after the fourth failure of a step: the fifth
\* attempt ended the run CANCELED
C17_Witness ==
    /\ pc = "returned"
    /\ requested.call = "retry"
    /\ requested.status = "CANCELING"
    /\ cancelSeenAt = MaxAttempts
    /\ faults = MaxAttempts - 1
    /\ status = "CANCELED"


\* --------------------------------------------------------------------- C18

\* the run has set and saved a status: FINISHED, CANCELED or FAILED
StatusSetByRun == saved # <<>>

\* C18: once the run has set task.status to FINISHED, CANCELED or FAILED, no
\* step of it calls the oracle, looks up or invokes an action, appends a
\* record or a message to the conversation, or sets or saves a status again.
C18_NothingAfterTerminalStatus ==
    [][StatusSetByRun =>
          /\ saved[1] \in {"FINISHED", "CANCELED", "FAILED"}
          /\ UNCHANGED <<status, storeStatus, saved, oracleCalls, lookups,
                         invoked, returned, records, messages>>]_vars

\* the terminal step has set FINISHED and take_action has yet to return to
\* the loop, one step of the budget being left
C18_Witness ==
    /\ StatusSetByRun
    /\ status = "FINISHED"
    /\ pc = "after"
    /\ i < max_steps
    /\ oracleCalls > 1


\* --------------------------------------------------------------------- C19

\* solve_task has returned; with max_steps = 0 it has returned FAILED with
\* the max-steps post and without an oracle call
ReturnedAsClaimed ==
    /\ pc = "returned"
    /\ max_steps = 0 =>
          /\ status = "FAILED"
          /\ oracleCalls = 0
          /\ Last(feed) = Post("maxsteps", <<>>)
          /\ messages = <<>>

\* C19: every run terminates. The loop never goes beyond max_steps
\* iterations and a step never beyond 5 attempts, and, every call returning,
\* solve_task eventually returns, whatever the oracle and the actions do;
\* with max_steps = 0 it returns FAILED with the max-steps post and no oracle
\* call.
C19_EveryRunTerminates ==
    /\ [](i <= max_steps /\ attempt <= MaxAttempts)
    /\ <>ReturnedAsClaimed

\* a run whose every attempt failed has returned
C19_Witness ==
    /\ pc = "returned"
    /\ oracleCalls = MaxAttempts
    /\ faults = oracleCalls
    /\ status = "FAILED"
    /\ max_steps > 1

=============================================================================
